---- MODULE Spec2Model ----
(***************************************************************************)
(* Fractal tree generator (src/src/App.tsx): the geometry builder, the     *)
(* frame renderer and the requestAnimationFrame driver of the App          *)
(* component, as a state machine.                                          *)
(*                                                                         *)
(* Numbers.  JavaScript doubles are modelled in fixed point:               *)
(*   lengths, coordinates, thicknesses : 1/1000 pixel                      *)
(*   angles handed to Math.sin/cos, windTime : 1/1000 radian               *)
(*   the wind angle returned by getWindAngle : 1/1000 degree               *)
(*   settings.shrink : 1/100,  settings.windSpeed : 1/10                   *)
(*   Math.random()   : quarters, 0..3 standing for 0, 0.25, 0.5, 0.75      *)
(***************************************************************************)
EXTENDS Integers, Sequences, FiniteSets, TLC

VARIABLES
    settings,        \* useState<Settings>
    bg,              \* useState<ThemeBG>
    windTimeRef,     \* windTimeRef.current
    segmentsRef,     \* segmentsRef.current, the segment list
    segmentsArrayId, \* identity of the array object segmentsRef.current holds
    growIndexRef,    \* growIndexRef.current, the reveal cutoff
    rafRef,          \* rafRef.current; 0 stands for null
    rafQueue,        \* callbacks registered with requestAnimationFrame
    nextRafId,       \* the handle the next requestAnimationFrame returns
    canvas,          \* what the last rendered frame put on the canvas
    surface,         \* canvasRef.current and its 2d context are available
    phase,           \* "init" (constructed), "mounted", "unmounted"
    op,              \* the handler that ran last
    events           \* number of user events handled so far

vars == <<settings, bg, windTimeRef, segmentsRef, segmentsArrayId, growIndexRef,
          rafRef, rafQueue, nextRafId, canvas, surface, phase, op, events>>

(***************************************************************************)
(* Bounds of the model.                                                    *)
(***************************************************************************)
MaxDepth == 4
MaxRafId == 5
MaxEvents == 2

(***************************************************************************)
(* Program constants.                                                      *)
(***************************************************************************)
CanvasWidth == 1000
CanvasHeight == 650
PiMilli == 3142
MinLen == 2
ShadowBlur == 18

Min(a, b) == IF a < b THEN a ELSE b
Max(a, b) == IF a > b THEN a ELSE b

clamp(n, min, max) == Max(min, Min(max, n))

(***************************************************************************)
(* Math.sin and Math.cos in fixed point: the argument and the result are   *)
(* in thousandths.  Range reduction to [0, pi/2], then the Taylor          *)
(* polynomial x - x^3/3! + x^5/5! - x^7/7!.                                *)
(***************************************************************************)
SinQuarter(x) ==
    LET x2 == (x * x) \div 1000
        t3 == ((x * x2) \div 1000) \div 6
        t5 == (t3 * x2) \div 20000
        t7 == (t5 * x2) \div 42000
    IN  x - t3 + t5 - t7

SinHalf(x) == IF x > PiMilli \div 2 THEN SinQuarter(PiMilli - x) ELSE SinQuarter(x)

Sin(x) ==
    LET r == x % (2 * PiMilli)
    IN  IF r > PiMilli THEN 0 - SinHalf(r - PiMilli) ELSE SinHalf(r)

Cos(x) == Sin(x + PiMilli \div 2)

(***************************************************************************)
(* Math.random().  A run of the program sees one stream of values; the     *)
(* model draws the stream from a few fixed streams, and Random(tape, k) is *)
(* the value of the k-th call, in quarters.                                *)
(***************************************************************************)
Tapes == {1, 2}
Random(tape, k) == (tape * k + tape) % 4

(***************************************************************************)
(* Settings.                                                               *)
(***************************************************************************)
Presets == {"spring", "autumn", "winter", "neon"}
Themes == {"night", "sunset", "snow"}

DefaultSettings ==
    [depth |-> Min(11, MaxDepth), angle |-> 25, length |-> 150, shrink |-> 67,
     thickness |-> 10, randomness |-> 2, leafMode |-> TRUE,
     animateWind |-> TRUE, windStrength |-> 4, windSpeed |-> 12,
     growAnimation |-> TRUE, growSpeed |-> 80, preset |-> "spring"]

presetColors(preset) ==
    CASE preset = "spring" ->
           [trunk |-> "#a16207", branch |-> "#16a34a", leaf |-> "#22c55e", glow |-> FALSE]
      [] preset = "autumn" ->
           [trunk |-> "#92400e", branch |-> "#ea580c", leaf |-> "#f59e0b", glow |-> FALSE]
      [] preset = "winter" ->
           [trunk |-> "#6b7280", branch |-> "#94a3b8", leaf |-> "#e5e7eb", glow |-> FALSE]
      [] preset = "neon" ->
           [trunk |-> "#a855f7", branch |-> "#22d3ee", leaf |-> "#f472b6", glow |-> TRUE]
      [] OTHER ->
           [trunk |-> "#a16207", branch |-> "#16a34a", leaf |-> "#22c55e", glow |-> FALSE]

\* faulty variant: the leaf threshold compared with >=
branchColorLeafBelow(s, depthLeft, totalDepth) ==
    LET c == presetColors(s.preset)
    IN  IF ~s.leafMode THEN c.branch
        ELSE IF depthLeft * 100 > 55 * totalDepth THEN c.trunk
        ELSE IF depthLeft * 100 >= 25 * totalDepth THEN c.branch
        ELSE c.leaf

\* ratio = depthLeft / totalDepth; ratio > 0.55 and ratio > 0.25 compared exactly
branchColor(s, depthLeft, totalDepth) ==
    LET c == presetColors(s.preset)
    IN  IF ~s.leafMode THEN c.branch
        ELSE IF depthLeft * 100 > 55 * totalDepth THEN c.trunk
        ELSE IF depthLeft * 100 > 25 * totalDepth THEN c.branch
        ELSE c.leaf

\* the sway angle in 1/1000 degree at wind time t
getWindAngle(s, t, depthLeft, totalDepth) ==
    IF ~s.animateWind THEN 0
    ELSE (Sin(t) * s.windStrength * (totalDepth - depthLeft)) \div totalDepth

(***************************************************************************)
(* Geometry builder: buildSegments and its inner function collect.         *)
(***************************************************************************)
\* faulty variant: one level too many
stopHereOffByOne(depthLeft, len) == depthLeft < 0 \/ len < MinLen * 1000

stopHere(depthLeft, len) == depthLeft <= 0 \/ len < MinLen * 1000

\* a = ((angleDeg + randomAngle) * Math.PI) / 180 with
\* randomAngle = (Math.random() * 2 - 1) * settings.randomness, q = Math.random()
branchAngle(angleDeg, q, s) ==
    ((angleDeg * 2 + (q - 2) * s.randomness) * PiMilli) \div 360

\* faulty variant: the first recursive call turns the way of the second
leftAngleAsRight(angleDeg, s) == angleDeg + s.angle

leftAngle(angleDeg, s) == angleDeg - s.angle
rightAngle(angleDeg, s) == angleDeg + s.angle
newLenOf(len, s) == (len * s.shrink) \div 100
newThickOf(thick) == (thick * 75) \div 100

RECURSIVE collect(_, _, _, _, _, _, _, _, _)
collect(acc, x, y, len, angleDeg, depthLeft, thick, s, tape) ==
    IF stopHere(depthLeft, len) THEN acc
    ELSE LET a == branchAngle(angleDeg, Random(tape, Len(acc) + 1), s)
             x2 == x + (len * Cos(a)) \div 1000
             y2 == y - (len * Sin(a)) \div 1000
             seg == [x1 |-> x, y1 |-> y, x2 |-> x2, y2 |-> y2, thick |-> thick,
                     depthLeft |-> depthLeft, totalDepth |-> s.depth]
             left == collect(Append(acc, seg), x2, y2, newLenOf(len, s),
                             leftAngle(angleDeg, s), depthLeft - 1, newThickOf(thick),
                             s, tape)
         IN  collect(left, x2, y2, newLenOf(len, s), rightAngle(angleDeg, s),
                     depthLeft - 1, newThickOf(thick), s, tape)

startX == (CanvasWidth * 1000) \div 2
startY == (CanvasHeight - 20) * 1000

(***************************************************************************)
(* The refs of the component as one record, so that the functions of the   *)
(* component are operators from refs to refs.                              *)
(***************************************************************************)
Refs ==
    [segments |-> segmentsRef, arrayId |-> segmentsArrayId, growIndex |-> growIndexRef,
     windTime |-> windTimeRef, rafRef |-> rafRef, rafQueue |-> rafQueue,
     nextRafId |-> nextRafId, canvas |-> canvas]

\* what a render closes over: the settings and the theme of that render
Env == [settings |-> settings, bg |-> bg]

buildSegments(r, s, tape) ==
    IF ~surface THEN r
    ELSE [r EXCEPT !.arrayId = 1 - @,
                   !.growIndex = 0,
                   !.segments = collect(<< >>, startX, startY, s.length * 1000, 90,
                                        s.depth, s.thickness * 1000, s, tape)]

(***************************************************************************)
(* Frame renderer: drawSegmentsFrame.                                      *)
(***************************************************************************)
revealLimit(s, growIndex, total) ==
    IF s.growAnimation THEN clamp(growIndex, 0, total) ELSE total

\* faulty variant: the cutoff is advanced in every frame, also past the end of the list
advanceGrowAlways(s, growIndex, total) ==
    IF s.growAnimation THEN growIndex + s.growSpeed ELSE growIndex

advanceGrow(s, growIndex, total) ==
    IF s.growAnimation /\ growIndex < total THEN growIndex + s.growSpeed ELSE growIndex

\* The stroke of one segment.  The code takes baseAngle = atan2(-dy, dx) and
\* len = sqrt(dx^2 + dy^2) and draws to (x1 + len*cos(baseAngle + w),
\* y1 - len*sin(baseAngle + w)); by the angle-addition formulas that is the
\* rotation of (dx, -dy) by w, which is what is computed here.
drawStroke(s, t, seg) ==
    LET wind == getWindAngle(s, t, seg.depthLeft, seg.totalDepth)
        w == (wind * PiMilli) \div 180000
        dx == seg.x2 - seg.x1
        dy == seg.y2 - seg.y1
        x2 == seg.x1 + (dx * Cos(w) + dy * Sin(w)) \div 1000
        y2 == seg.y1 - (dx * Sin(w) - dy * Cos(w)) \div 1000
    IN  [x1 |-> seg.x1, y1 |-> seg.y1, x2 |-> x2, y2 |-> y2,
         strokeStyle |-> branchColor(s, seg.depthLeft, seg.totalDepth),
         lineWidth |-> seg.thick,
         leafDot |-> IF s.leafMode /\ seg.depthLeft <= 2
                     THEN clamp((seg.thick * 55) \div 100, 1200, 5000) ELSE 0]

\* faulty variant: advance-then-draw
drawSegmentsFrameAdvanceFirst(r, env) ==
    LET s == env.settings
        c == presetColors(s.preset)
        segs == r.segments
        total == Len(segs)
        grown == advanceGrow(s, r.growIndex, total)
        limit == revealLimit(s, grown, total)
    IN  [r EXCEPT !.canvas = [bg |-> env.bg,
                              shadowBlur |-> IF c.glow THEN ShadowBlur ELSE 0,
                              shadowColor |-> IF c.glow THEN c.leaf ELSE "transparent",
                              strokes |-> [i \in 1..limit |-> drawStroke(s, r.windTime, segs[i])]],
                  !.growIndex = grown]

\* faulty variant: the swayed end point is written back into the segment
drawSegmentsFrameStoringSway(r, env) ==
    LET s == env.settings
        c == presetColors(s.preset)
        segs == r.segments
        total == Len(segs)
        limit == revealLimit(s, r.growIndex, total)
        strokes == [i \in 1..limit |-> drawStroke(s, r.windTime, segs[i])]
    IN  [r EXCEPT !.canvas = [bg |-> env.bg,
                              shadowBlur |-> IF c.glow THEN ShadowBlur ELSE 0,
                              shadowColor |-> IF c.glow THEN c.leaf ELSE "transparent",
                              strokes |-> strokes],
                  !.segments = [i \in 1..total |->
                                  IF i <= limit
                                  THEN [segs[i] EXCEPT !.x2 = strokes[i].x2, !.y2 = strokes[i].y2]
                                  ELSE segs[i]],
                  !.growIndex = advanceGrow(s, r.growIndex, total)]

drawSegmentsFrame(r, env) ==
    LET s == env.settings
        c == presetColors(s.preset)
        segs == r.segments
        total == Len(segs)
        limit == revealLimit(s, r.growIndex, total)
    IN  [r EXCEPT !.canvas = [bg |-> env.bg,
                              shadowBlur |-> IF c.glow THEN ShadowBlur ELSE 0,
                              shadowColor |-> IF c.glow THEN c.leaf ELSE "transparent",
                              strokes |-> [i \in 1..limit |-> drawStroke(s, r.windTime, segs[i])]],
                  !.growIndex = advanceGrow(s, r.growIndex, total)]

(***************************************************************************)
(* Animation driver: startLoop, its tick, stopLoop, drawTreeOnce.          *)
(***************************************************************************)
requestAnimationFrame(r, env) ==
    [r EXCEPT !.rafQueue = @ \cup {[id |-> r.nextRafId, env |-> env]},
              !.rafRef = r.nextRafId,
              !.nextRafId = @ + 1]

\* faulty variant: the handle is forgotten but the callback is not cancelled
stopLoopNoCancel(r) ==
    IF r.rafRef # 0 THEN [r EXCEPT !.rafRef = 0] ELSE r

stopLoop(r) ==
    IF r.rafRef # 0
    THEN [r EXCEPT !.rafQueue = {cb \in @ : cb.id # r.rafRef}, !.rafRef = 0]
    ELSE r

\* faulty variant: a start of the loop also restarts the animation state
startLoopResetting(r, env) ==
    LET r1 == stopLoop(r)
    IN  IF ~surface THEN r1
        ELSE requestAnimationFrame([r1 EXCEPT !.growIndex = 0, !.windTime = 0], env)

startLoop(r, env) ==
    LET r1 == stopLoop(r)
    IN  IF ~surface THEN r1 ELSE requestAnimationFrame(r1, env)

\* faulty variant: the callback does not register itself for the next frame
tickOnce(r, cb) ==
    LET r1 == [r EXCEPT !.rafQueue = @ \ {cb},
                        !.windTime = @ + 2 * cb.env.settings.windSpeed]
    IN  [drawSegmentsFrame(r1, cb.env) EXCEPT !.rafRef = 0]

tick(r, cb) ==
    LET r1 == [r EXCEPT !.rafQueue = @ \ {cb},
                        !.windTime = @ + 2 * cb.env.settings.windSpeed]
    IN  requestAnimationFrame(drawSegmentsFrame(r1, cb.env), cb.env)

\* faulty variant: the frame is drawn without moving the cutoff to the end of the list
drawTreeOnceNoReveal(r, env, tape) ==
    LET r1 == buildSegments(r, env.settings, tape)
    IN  IF ~surface THEN r1 ELSE drawSegmentsFrame(r1, env)

drawTreeOnce(r, env, tape) ==
    LET r1 == buildSegments(r, env.settings, tape)
    IN  IF ~surface THEN r1
        ELSE drawSegmentsFrame([r1 EXCEPT !.growIndex = Len(r1.segments)], env)

(***************************************************************************)
(* The two effects and their dependency arrays.                            *)
(***************************************************************************)
\* faulty variant: leafMode listed among the dependencies of the rebuild effect
ShapeDepsWithLeafMode(env) ==
    <<env.settings.depth, env.settings.angle, env.settings.length,
      env.settings.shrink, env.settings.thickness, env.settings.randomness,
      env.settings.leafMode>>

ShapeDeps(env) ==
    <<env.settings.depth, env.settings.angle, env.settings.length,
      env.settings.shrink, env.settings.thickness, env.settings.randomness>>

AnimDeps(env) ==
    <<env.settings.animateWind, env.settings.windStrength, env.settings.windSpeed,
      env.settings.growAnimation, env.settings.growSpeed, env.settings.leafMode,
      env.settings.preset, env.bg>>

\* a commit that replaces the render `old` by the render `new`: the cleanups of
\* the effects whose dependencies changed, then those effects in source order
runEffects(r, old, new, tape) ==
    LET rebuild == ShapeDeps(new) # ShapeDeps(old)
        restart == AnimDeps(new) # AnimDeps(old)
        r1 == IF restart THEN stopLoop(r) ELSE r
        r2 == IF rebuild THEN buildSegments(r1, new.settings, tape) ELSE r1
    IN  IF restart THEN startLoop(r2, new) ELSE r2

\* the Math.random() streams a commit can consume: one per stream if it rebuilds
RebuildTapes(old, new) == IF ShapeDeps(new) # ShapeDeps(old) THEN Tapes ELSE {1}

\* randomize: the seven Math.random() draws of one click, from stream `tape`.
\* depth is capped at MaxDepth, the depth bound of the model.
randomize(prev, tape) ==
    [prev EXCEPT !.depth = Min((Random(tape, 1) * 6) \div 4 + 9, MaxDepth),
                 !.angle = (Random(tape, 2) * 35) \div 4 + 10,
                 !.length = (Random(tape, 3) * 90) \div 4 + 120,
                 !.shrink = ((Random(tape, 4) * 180) \div 4 + 5) \div 10 + 58,
                 !.thickness = (Random(tape, 5) * 10) \div 4 + 6,
                 !.randomness = (Random(tape, 6) * 8) \div 4,
                 !.leafMode = Random(tape, 7) * 10 > 8]

\* the values the controls of the panel can hand to update and setBg; the
\* sliders' ranges and the selects' options, thinned out (depth: 1..15 in the
\* code, 1 and MaxDepth here)
ControlValues ==
    [depth |-> {1, MaxDepth}, angle |-> {25, 60}, length |-> {60, 150},
     shrink |-> {50, 67}, thickness |-> {1, 10}, randomness |-> {0, 2},
     leafMode |-> BOOLEAN, animateWind |-> BOOLEAN, windStrength |-> {4, 12},
     windSpeed |-> {12, 30}, growAnimation |-> BOOLEAN, growSpeed |-> {10, 80},
     preset |-> {"spring", "neon"}]

ControlThemes == {"night", "snow"}

(***************************************************************************)
(* State machine.                                                          *)
(***************************************************************************)
BlankCanvas ==
    [bg |-> "none", shadowBlur |-> 0, shadowColor |-> "transparent", strokes |-> << >>]

Commit(rr) ==
    \E r \in {rr} :
    /\ segmentsRef' = r.segments
    /\ segmentsArrayId' = r.arrayId
    /\ growIndexRef' = r.growIndex
    /\ windTimeRef' = r.windTime
    /\ rafRef' = r.rafRef
    /\ rafQueue' = r.rafQueue
    /\ nextRafId' = r.nextRafId
    /\ canvas' = r.canvas

Init ==
    /\ settings = DefaultSettings
    /\ bg = "night"
    /\ windTimeRef = 0
    /\ segmentsRef = << >>
    /\ segmentsArrayId = 0
    /\ growIndexRef = 0
    /\ rafRef = 0
    /\ rafQueue = {}
    /\ nextRafId = 1
    /\ canvas = BlankCanvas
    /\ surface \in BOOLEAN
    /\ phase = "init"
    /\ op = "init"
    /\ events = 0

\* first commit: both effects run, in source order
Mount ==
    /\ phase = "init"
    /\ \E tape \in Tapes :
         Commit(startLoop(buildSegments(Refs, settings, tape), Env))
    /\ phase' = "mounted"
    /\ op' = "mount"
    /\ UNCHANGED <<settings, bg, surface, events>>

\* the browser runs a registered frame callback
Tick ==
    /\ nextRafId <= MaxRafId
    /\ \E cb \in rafQueue : Commit(tick(Refs, cb))
    /\ op' = "tick"
    /\ UNCHANGED <<settings, bg, surface, phase, events>>

\* update(key, value) from a control of the panel; a control that hands back
\* the current value changes no dependency, so no effect runs
Update ==
    /\ phase = "mounted"
    /\ events < MaxEvents
    /\ \E key \in DOMAIN ControlValues :
         \E value \in ControlValues[key] :
           /\ value # settings[key]
           /\ settings' = [settings EXCEPT ![key] = value]
           /\ \E tape \in RebuildTapes(Env, [settings |-> settings', bg |-> bg]) :
                Commit(runEffects(Refs, Env, [settings |-> settings', bg |-> bg], tape))
    /\ op' = "update"
    /\ events' = events + 1
    /\ UNCHANGED <<bg, surface, phase>>

\* setBg from the theme select
SetBg ==
    /\ phase = "mounted"
    /\ events < MaxEvents
    /\ \E theme \in ControlThemes \ {bg} :
         /\ bg' = theme
         /\ Commit(runEffects(Refs, Env, [settings |-> settings, bg |-> theme], 1))
    /\ op' = "setBg"
    /\ events' = events + 1
    /\ UNCHANGED <<settings, surface, phase>>

\* the Random button
Randomize ==
    /\ phase = "mounted"
    /\ events < MaxEvents
    /\ \E tape \in Tapes :
         /\ settings' = randomize(settings, tape)
         /\ Commit(runEffects(Refs, Env, [settings |-> settings', bg |-> bg], tape))
    /\ op' = "randomize"
    /\ events' = events + 1
    /\ UNCHANGED <<bg, surface, phase>>

\* the Draw button
DrawTreeOnce ==
    /\ phase = "mounted"
    /\ events < MaxEvents
    /\ \E tape \in Tapes : Commit(drawTreeOnce(Refs, Env, tape))
    /\ op' = "draw"
    /\ events' = events + 1
    /\ UNCHANGED <<settings, bg, surface, phase>>

\* the view is torn down: the cleanup of the loop effect
Unmount ==
    /\ phase = "mounted"
    /\ Commit(stopLoop(Refs))
    /\ phase' = "unmounted"
    /\ op' = "unmount"
    /\ UNCHANGED <<settings, bg, surface, events>>

Next == Mount \/ Tick \/ Update \/ SetBg \/ Randomize \/ DrawTreeOnce \/ Unmount

Spec == Init /\ [][Next]_vars

(***************************************************************************)
(* The same component started from any configuration of a bounded family,  *)
(* with no configuration edits: for the properties of the builder and of   *)
(* the colour resolver, which are functions of the configuration.          *)
(***************************************************************************)
ShapeConfigs ==
    {[DefaultSettings EXCEPT !.depth = d, !.angle = a, !.length = l,
                             !.shrink = sh, !.randomness = rn] :
        d \in 1..MaxDepth, a \in {25, 60}, l \in {60, 240},
        sh \in {50, 85}, rn \in {0, 12}}

\* deeper trees that the minimum-length floor keeps small
DeepConfigs ==
    {[DefaultSettings EXCEPT !.depth = d, !.length = 60, !.shrink = 50,
                             !.randomness = rn] :
        d \in (MaxDepth + 1)..(MaxDepth + 3), rn \in {0, 2}}

ColorConfigs ==
    {[DefaultSettings EXCEPT !.depth = d, !.preset = p, !.leafMode = lm,
                             !.growAnimation = ga] :
        d \in 1..MaxDepth, p \in Presets, lm \in BOOLEAN, ga \in BOOLEAN}

InitAnyConfig ==
    /\ settings \in ShapeConfigs \cup DeepConfigs \cup ColorConfigs
    /\ bg = "night"
    /\ windTimeRef = 0
    /\ segmentsRef = << >>
    /\ segmentsArrayId = 0
    /\ growIndexRef = 0
    /\ rafRef = 0
    /\ rafQueue = {}
    /\ nextRafId = 1
    /\ canvas = BlankCanvas
    /\ surface = TRUE
    /\ phase = "init"
    /\ op = "init"
    /\ events = 0

NextAnyConfig == Mount \/ Tick \/ DrawTreeOnce \/ Unmount

SpecAnyConfig == InitAnyConfig /\ [][NextAnyConfig]_vars

(***************************************************************************)
(* The component with the browser's scheduling: a registered frame         *)
(* callback is run at the next frame, so the running of callbacks is       *)
(* weakly fair.  The cap on the handle counter is lifted for the frames of *)
(* a reveal that is under way, so that the cap never cuts a reveal short.  *)
(***************************************************************************)
TickLive ==
    /\ \E cb \in rafQueue :
         /\ \/ nextRafId <= MaxRafId
            \/ cb.env.settings.growAnimation /\ growIndexRef < Len(segmentsRef)
         /\ Commit(tick(Refs, cb))
    /\ op' = "tick"
    /\ UNCHANGED <<settings, bg, surface, phase, events>>

\* the steps under which a reveal goes on or starts afresh: the frames, the
\* edits of the panel and Random.  Left out are the two steps that end a reveal
\* outright: Unmount stops the loop for good, and Draw reveals the whole tree
\* at once (drawTreeOnce sets the cutoff to the list length).
NextLive == Mount \/ TickLive \/ Update \/ SetBg \/ Randomize

\* a frame of the loop is due and is run.  Only TickLive sets op to "tick" and
\* every run of the callback registers the next one under a new handle, so a
\* step of NextLive is a TickFrame step exactly when it is a TickLive step, and
\* the two are enabled in the same states.
TickFrame ==
    /\ \E cb \in rafQueue :
         \/ nextRafId <= MaxRafId
         \/ cb.env.settings.growAnimation /\ growIndexRef < Len(segmentsRef)
    /\ op' = "tick"
    /\ nextRafId' = nextRafId + 1

SpecLive == Init /\ [][NextLive]_vars /\ WF_<<op, nextRafId>>(TickFrame)

(***************************************************************************)
(* Properties.                                                             *)
(***************************************************************************)
Rebuilt == segmentsArrayId' # segmentsArrayId

\* the stroke drawn for a segment starts where the segment starts and has its width
StrokeOf(stroke, seg) ==
    stroke.x1 = seg.x1 /\ stroke.y1 = seg.y1 /\ stroke.lineWidth = seg.thick

\* C1 as stated: the stored reveal cutoff is at most the segment-list length.
C1_StoredCutoffWithinList == growIndexRef <= Len(segmentsRef)

C1_CutoffStep ==
    /\ ~Rebuilt => growIndexRef' >= growIndexRef
    /\ op' \in {"tick", "draw"} => Len(canvas'.strokes) <= Len(segmentsRef')
    /\ (op' = "tick" /\ growIndexRef' # growIndexRef) =>
          /\ growIndexRef < Len(segmentsRef)
          /\ growIndexRef' = growIndexRef + settings.growSpeed
          /\ growIndexRef' < Len(segmentsRef) + settings.growSpeed

\* C1, amended: the number of segments a frame draws is at most the list length;
\* the stored cutoff is advanced only by a frame that starts with it below the
\* list length, and then by exactly growSpeed (so it may end above the length,
\* by less than growSpeed); without a rebuild it never decreases.
C1_CutoffMonotoneDrawnClamped == [][C1_CutoffStep]_vars

C1_Witness ==
    /\ op = "tick"
    /\ Len(segmentsRef) > 0
    /\ growIndexRef > Len(segmentsRef)
    /\ Len(canvas.strokes) = Len(segmentsRef)

\* C2: at most one frame callback is registered at any moment, and it is the
\* one rafRef names.
C2_AtMostOneCallback ==
    /\ Cardinality(rafQueue) <= 1
    /\ \A cb \in rafQueue : cb.id = rafRef

C2_Witness ==
    /\ op = "tick"
    /\ events = 2
    /\ nextRafId > 4
    /\ Cardinality(rafQueue) = 1

\* the six shape fields keep their values in the step
SameShapeFields ==
    /\ settings'.depth = settings.depth
    /\ settings'.angle = settings.angle
    /\ settings'.length = settings.length
    /\ settings'.shrink = settings.shrink
    /\ settings'.thickness = settings.thickness
    /\ settings'.randomness = settings.randomness

ConfigChanged == settings' # settings \/ bg' # bg

\* the loop was restarted: the old registration is gone, one fresh one is there
Restarted ==
    /\ rafRef' = nextRafId
    /\ nextRafId' = nextRafId + 1
    /\ rafQueue' = {[id |-> nextRafId, env |-> [settings |-> settings', bg |-> bg']]}

C3_Step ==
    /\ (ConfigChanged /\ SameShapeFields) =>
          /\ segmentsRef' = segmentsRef
          /\ ~Rebuilt
          /\ surface => Restarted
    /\ Rebuilt => (~SameShapeFields \/ op' \in {"draw", "mount"})
    /\ (ConfigChanged /\ ~SameShapeFields /\ surface) => Rebuilt

\* C3: a configuration edit that changes only cosmetic or animation fields
\* leaves the segment list as it is (the same array, the same segments) and
\* restarts the loop; the list is rebuilt only when a shape field changes, on
\* an explicit draw, or by the first commit.
C3_CosmeticEditKeepsSegments == [][C3_Step]_vars

C3_Witness ==
    /\ op = "update"
    /\ events = 1
    /\ settings.windStrength = 12
    /\ growIndexRef > 0
    /\ Len(segmentsRef) > 1
    /\ rafRef = nextRafId - 1

C4_Step ==
    /\ (ConfigChanged /\ SameShapeFields) =>
          (windTimeRef' = windTimeRef /\ growIndexRef' = growIndexRef)
    /\ op' \in {"update", "setBg", "randomize", "unmount", "mount"} =>
          windTimeRef' = windTimeRef
    /\ op' = "unmount" => growIndexRef' = growIndexRef
    /\ (growIndexRef # 0 /\ growIndexRef' = 0) => Rebuilt

\* C4: a restart of the loop leaves the wind time and the reveal cutoff as they
\* are; the cutoff goes back to zero only in a step that rebuilds the list.
C4_RestartKeepsAnimationState == [][C4_Step]_vars

C4_Witness ==
    /\ op = "setBg"
    /\ surface
    /\ growIndexRef > 0
    /\ windTimeRef > 0
    /\ rafRef = nextRafId - 1
    /\ rafRef > 2

C5_Step ==
    (op' = "draw" /\ surface) =>
        /\ Rebuilt
        /\ growIndexRef' = Len(segmentsRef')
        /\ Len(canvas'.strokes) = Len(segmentsRef')
        /\ \A i \in 1..Len(segmentsRef') : StrokeOf(canvas'.strokes[i], segmentsRef'[i])

\* C5: with a drawable surface, an explicit draw rebuilds the list, leaves the
\* cutoff at the length of the new list, and its frame shows every segment.
C5_DrawRevealsWholeTree == [][C5_Step]_vars

C5_Witness ==
    /\ op = "draw"
    /\ surface
    /\ settings.growAnimation
    /\ settings.growSpeed < Len(segmentsRef)
    /\ Len(canvas.strokes) = Len(segmentsRef)

C7_Step ==
    op' = "tick" =>
        LET total == Len(segmentsRef)
            limit == IF settings.growAnimation THEN Min(growIndexRef, total) ELSE total
        IN  /\ Len(canvas'.strokes) = limit
            /\ \A i \in 1..limit : StrokeOf(canvas'.strokes[i], segmentsRef[i])
            /\ (settings.growAnimation /\ growIndexRef < total) =>
                   growIndexRef' = growIndexRef + settings.growSpeed
            /\ (settings.growAnimation /\ growIndexRef = 0) => canvas'.strokes = << >>

C10_Step ==
    op' = "tick" =>
        /\ segmentsRef' = segmentsRef
        /\ ~Rebuilt
        /\ \A i \in 1..Len(canvas'.strokes) : StrokeOf(canvas'.strokes[i], segmentsRef'[i])

\* C10: a tick leaves the stored segment list as it is, with wind sway on or
\* off; every stroke starts at its segment's start point with its thickness.
C10_TickKeepsSegments == [][C10_Step]_vars

C10_Witness ==
    /\ op = "tick"
    /\ settings.animateWind
    /\ \E i \in 1..Len(canvas.strokes) :
         canvas.strokes[i].x2 # segmentsRef[i].x2 \/ canvas.strokes[i].y2 # segmentsRef[i].y2

(***************************************************************************)
(* Properties of the builder and of the colour resolver (SpecAnyConfig,    *)
(* where the list in segmentsRef was built from the settings of the state).*)
(***************************************************************************)
RECURSIVE Pow2(_)
Pow2(n) == IF n <= 0 THEN 1 ELSE 2 * Pow2(n - 1)

\* the length handed to collect k levels below the root, in 1/1000 pixel
RECURSIVE LenAtLevel(_)
LenAtLevel(k) ==
    IF k = 0 THEN settings.length * 1000
    ELSE (LenAtLevel(k - 1) * settings.shrink) \div 100

LevelOf(i) == settings.depth - segmentsRef[i].depthLeft

\* the number of levels of the tree that are at least 2 pixels long
LongLevels == Cardinality({k \in 0..(settings.depth - 1) : LenAtLevel(k) >= 2000})

\* C6: with depth >= 1 and 0 < shrink < 1 the build ends with at most
\* 2^(depth+1) - 1 segments; no segment is emitted where the remaining depth
\* is <= 0 or the length is < 2 (and the list is the full binary tree over the
\* levels that are long enough).
C6_BuildBounded ==
    (phase # "init" /\ settings.depth >= 1 /\ settings.shrink > 0 /\ settings.shrink < 100) =>
        /\ Len(segmentsRef) <= Pow2(settings.depth + 1) - 1
        /\ \A i \in 1..Len(segmentsRef) :
             /\ segmentsRef[i].depthLeft >= 1
             /\ LenAtLevel(LevelOf(i)) >= 2000
        /\ Len(segmentsRef) = Pow2(LongLevels) - 1

\* a build that the minimum-length floor cut short
C6_Witness ==
    /\ phase = "mounted"
    /\ settings.depth > 5
    /\ Len(segmentsRef) = 31
    /\ \E i \in 1..Len(segmentsRef) : segmentsRef[i].depthLeft = settings.depth - 4
    /\ \A i \in 1..Len(segmentsRef) : segmentsRef[i].depthLeft > 1

\* the palettes as the claim gives them: trunk, branch, leaf
C8_Palette(preset) ==
    CASE preset = "spring" -> <<"#a16207", "#16a34a", "#22c55e">>
      [] preset = "autumn" -> <<"#92400e", "#ea580c", "#f59e0b">>
      [] preset = "winter" -> <<"#6b7280", "#94a3b8", "#e5e7eb">>
      [] preset = "neon" -> <<"#a855f7", "#22d3ee", "#f472b6">>

C8_Color(depthLeft, totalDepth, leafMode, preset) ==
    IF ~leafMode THEN C8_Palette(preset)[2]
    ELSE IF 100 * depthLeft > 55 * totalDepth THEN C8_Palette(preset)[1]
    ELSE IF 100 * depthLeft > 25 * totalDepth THEN C8_Palette(preset)[2]
    ELSE C8_Palette(preset)[3]

\* C8: every stroke of a frame has the colour that (depthLeft/totalDepth,
\* leafMode, preset) determine: the branch colour with leaf-mode off; with it
\* on the trunk colour for ratio > 0.55, the branch colour for
\* 0.25 < ratio <= 0.55 and the leaf colour for ratio <= 0.25; the frame glows
\* exactly for preset neon.
C8_ColorByRatio ==
    canvas # BlankCanvas =>
        /\ \A i \in 1..Len(canvas.strokes) :
             canvas.strokes[i].strokeStyle =
                 C8_Color(segmentsRef[i].depthLeft, segmentsRef[i].totalDepth,
                          settings.leafMode, settings.preset)
        /\ (canvas.shadowBlur # 0) <=> (settings.preset = "neon")

C8_Witness ==
    /\ settings.preset = "spring"
    /\ settings.leafMode
    /\ \E i, j, k \in 1..Len(canvas.strokes) :
         /\ canvas.strokes[i].strokeStyle = "#a16207"
         /\ canvas.strokes[j].strokeStyle = "#16a34a"
         /\ canvas.strokes[k].strokeStyle = "#22c55e"
         /\ segmentsRef[j].depthLeft * 2 = segmentsRef[j].totalDepth
         /\ segmentsRef[k].depthLeft * 4 = segmentsRef[k].totalDepth

\* the parent of segment i in a pre-order list: the last segment before i with
\* one more level left
HasParent(i) == \E j \in 1..(i - 1) : segmentsRef[j].depthLeft = segmentsRef[i].depthLeft + 1

Parent(i) ==
    LET above == {j \in 1..(i - 1) : segmentsRef[j].depthLeft = segmentsRef[i].depthLeft + 1}
    IN  CHOOSE j \in above : \A k \in above : k <= j

Children(j) == {i \in (j + 1)..Len(segmentsRef) : HasParent(i) /\ Parent(i) = j}

RECURSIVE InSubtree(_, _)
InSubtree(a, i) == i = a \/ (i > a /\ HasParent(i) /\ InSubtree(a, Parent(i)))

\* the direction handed to collect for segment i, in degrees: 90 at the root,
\* the parent's minus angle for a first child, plus angle for a second child
RECURSIVE Direction(_)
Direction(i) ==
    IF i = 1 THEN 90
    ELSE LET p == Parent(i)
         IN  IF i = p + 1 THEN Direction(p) - settings.angle
             ELSE Direction(p) + settings.angle

\* segment i runs from its start point in direction Direction(i), off by one of
\* the random perturbations, for the length of its level
RunsInDirection(i) ==
    \E q \in 0..3 :
        LET a == ((2 * Direction(i) + (q - 2) * settings.randomness) * PiMilli) \div 360
            len == LenAtLevel(LevelOf(i))
        IN  /\ segmentsRef[i].x2 = segmentsRef[i].x1 + (len * Cos(a)) \div 1000
            /\ segmentsRef[i].y2 = segmentsRef[i].y1 - (len * Sin(a)) \div 1000

\* C9: the list is in pre-order: the root first, every other segment after its
\* parent, starting at the parent's end point with one level less; the left
\* subtree (direction - angle) of a node wholly before its right subtree
\* (direction + angle): it is the run of segments from the node's first child
\* up to its second child; totalDepth is the depth of the configuration.
C9_PreOrder ==
    phase # "init" =>
        LET n == Len(segmentsRef)
        IN  /\ n > 0 =>
                 /\ segmentsRef[1].depthLeft = settings.depth
                 /\ segmentsRef[1].x1 = 500000 /\ segmentsRef[1].y1 = 630000
            /\ \A i \in 1..n : segmentsRef[i].totalDepth = settings.depth
            /\ \A i \in 2..n :
                 /\ HasParent(i)
                 /\ segmentsRef[i].x1 = segmentsRef[Parent(i)].x2
                 /\ segmentsRef[i].y1 = segmentsRef[Parent(i)].y2
                 /\ segmentsRef[i].depthLeft = segmentsRef[Parent(i)].depthLeft - 1
            /\ (\A i \in 2..n : HasParent(i)) =>
                 /\ \A i \in 1..n : RunsInDirection(i)
                 /\ \A j \in 1..n :
                      \/ Children(j) = {}
                      \/ \E l, r \in Children(j) :
                           /\ Children(j) = {l, r}
                           /\ l = j + 1
                           /\ l < r
                           /\ \A a \in l..(r - 1) : InSubtree(l, a)
                           /\ \A b \in r..n : ~InSubtree(l, b)

C9_Witness ==
    /\ phase = "mounted"
    /\ settings.randomness = 2
    /\ settings.depth = 3
    /\ Len(segmentsRef) = 7
    /\ Children(1) = {2, 5}
    /\ Children(2) = {3, 4}
    /\ Direction(2) = 90 - settings.angle
    /\ Direction(5) = 90 + settings.angle
    /\ segmentsRef[2].x2 > segmentsRef[1].x2
    /\ segmentsRef[5].x2 < segmentsRef[1].x2

(***************************************************************************)
(* Liveness of the reveal (SpecLive).                                      *)
(***************************************************************************)
\* a reveal of the list in array a is under way: grow animation on with
\* growSpeed >= 1, a frame callback registered, the cutoff below the length
Revealing(a) ==
    /\ segmentsArrayId = a
    /\ settings.growAnimation
    /\ settings.growSpeed >= 1
    /\ rafQueue # {}
    /\ growIndexRef < Len(segmentsRef)

\* the reveal of the list in array a is over, or its premise is gone: the list
\* was rebuilt or the grow animation was switched off
RevealedOrGivenUp(a) ==
    \/ growIndexRef >= Len(segmentsRef)
    \/ segmentsArrayId # a
    \/ ~settings.growAnimation

\* once the cutoff has reached the length, a frame of the loop draws the whole
\* list and, short of a rebuild, no step moves the cutoff
C11_AfterReveal ==
    growIndexRef >= Len(segmentsRef) =>
        /\ op' = "tick" => Len(canvas'.strokes) = Len(segmentsRef)
        /\ ~Rebuilt => growIndexRef' = growIndexRef

\* C11: with grow animation on, growSpeed >= 1, the loop running and no
\* further rebuild, the cutoff eventually reaches the list length; from then
\* on every frame draws the whole list and the cutoff is not advanced again.
C11_RevealCompletes ==
    /\ \A a \in {0, 1} : Revealing(a) ~> RevealedOrGivenUp(a)
    /\ [][C11_AfterReveal]_vars

\* the frame that completes a reveal begun two frames earlier
C11_Witness ==
    /\ op = "tick"
    /\ settings.growAnimation
    /\ settings.growSpeed = 10
    /\ Len(segmentsRef) = 15
    /\ growIndexRef = 20
    /\ Len(canvas.strokes) = 10
    /\ rafQueue # {}

====
